---- MODULE Spec2Model ----
(***************************************************************************)
(* A model of psql/__init__.py: the constraint compiler (gets/_retrieve),  *)
(* the retrieval protocol (gets/get/fetch/fetchs/exists), commit, the      *)
(* result collection filter (selectwhere/intersect), the gap scan          *)
(* (get_increment) and the instance cache (DictCache.cache).               *)
(*                                                                         *)
(* Python strings are sequences of one-character strings, so that slicing, *)
(* str.strip and repr are computed as Python computes them.  Python values *)
(* are tagged pairs <<type, payload>>.                                     *)
(***************************************************************************)
EXTENDS Integers, Sequences, FiniteSets, TLC

VARIABLES
    table,        \* the rows of TABLE_NAME held by the database
    pc,           \* per client: position inside commit()
    self,         \* per client: the object commit() was called on
    found,        \* per client: what exists(primary_value()) returned
    issued,       \* per client: the write queries sent by the current commit()
    pre,          \* per client: was the primary value in the table when commit() began
    raised,       \* per client: the exception the current commit() ended with
    inserts,      \* per primary value: INSERT queries sent so far
    updates,      \* per primary value: UPDATE queries sent so far
    raced,        \* primary values whose commit() began while another was in flight
    ncalls,       \* commit() calls begun so far
    call,         \* the last retrieval call: its name and arguments
    outcome,      \* the last retrieval call: what it returned or raised
    _cache,       \* DictCache._cache
    cpc,          \* per caller: position inside DictCache.cache
    ckey,         \* per caller: the key argument
    cfunc,        \* per caller: the func argument
    cval,         \* per caller: the value func() returned, not yet stored
    cret,         \* per caller: the value the last cache() call returned
    invoked,      \* per key: the producers invoked so far, in order
    stores,       \* per key: assignments to _cache[key] so far
    ccalls,       \* cache() calls begun so far
    input,        \* the argument of the last pure-function call
    output        \* what that call returned or raised

dbvars == <<table, pc, self, found, issued, pre, raised, inserts, updates, raced, ncalls>>
qvars == <<call, outcome>>
cachevars == <<_cache, cpc, ckey, cfunc, cval, cret, invoked, stores, ccalls>>
purevars == <<input, output>>
vars == <<dbvars, qvars, cachevars, purevars>>

(***************************************************************************)
(* Bounds of the model.                                                    *)
(***************************************************************************)
MaxId == 2
MaxCalls == 3
MaxCacheCalls == 3
MaxArgs == 3
MaxElem == 3
MaxKey == 5
MaxNameLen == 4

(***************************************************************************)
(* Python values and strings.                                              *)
(***************************************************************************)
None == <<"NoneType", 0>>
Ellipsis == <<"ellipsis", 0>>
PyInt(i) == <<"int", i>>
PyStr(s) == <<"str", s>>
PyObj(o) == <<"SQLObject", o>>
PyList(l) == <<"list", l>>

Digit(i) == <<"0", "1", "2", "3", "4", "5", "6", "7", "8", "9">>[i + 1]

RECURSIVE Digits(_)
Digits(i) == IF i < 10 THEN <<Digit(i)>> ELSE Digits(i \div 10) \o <<Digit(i % 10)>>

\* str(v) of an int, a str, None or Ellipsis
str(v) ==
    CASE v[1] = "int" -> IF v[2] < 0 THEN <<"-">> \o Digits(-v[2]) ELSE Digits(v[2])
      [] v[1] = "str" -> v[2]
      [] v[1] = "NoneType" -> <<"N", "o", "n", "e">>
      [] OTHER -> <<"E", "l", "l", "i", "p", "s", "i", "s">>

Chars(s) == {s[i] : i \in 1..Len(s)}

\* repr(s) of a str: single quotes unless the text holds one and no double quote
repr(s) ==
    IF "'" \in Chars(s) /\ "\"" \notin Chars(s)
    THEN <<"\"">> \o s \o <<"\"">>
    ELSE <<"'">> \o s \o <<"'">>

RECURSIVE lstrip(_, _)
lstrip(s, chars) ==
    IF Len(s) > 0 /\ s[1] \in chars THEN lstrip(Tail(s), chars) ELSE s

RECURSIVE rstrip(_, _)
rstrip(s, chars) ==
    IF Len(s) > 0 /\ s[Len(s)] \in chars THEN rstrip(SubSeq(s, 1, Len(s) - 1), chars) ELSE s

\* str.strip(chars): drops from both ends every character that is in chars
strip(s, chars) == rstrip(lstrip(s, chars), chars)

\* s[:2] and s[2:]
Prefix2(s) == SubSeq(s, 1, IF Len(s) < 2 THEN Len(s) ELSE 2)
Rest2(s) == SubSeq(s, 3, Len(s))

OPERATORS ==
    (<<"=", "=">> :> <<"=">>) @@
    (<<"<", "<">> :> <<"<">>) @@
    (<<">", ">">> :> <<">">>) @@
    (<<"<", "=">> :> <<"<", "=">>) @@
    (<<">", "=">> :> <<">", "=">>) @@
    (<<"I", "S">> :> <<"I", "S", " ", "N", "U", "L", "L">>)

AND == <<" ", "A", "N", "D", " ">>
WHERE == <<"W", "H", "E", "R", "E", " ">>
SELECT == <<"S", "E", "L", "E", "C", "T", " ", "*", " ", "F", "R", "O", "M", " ">>

(***************************************************************************)
(* The entity type of the model: one table with two persisted keys.        *)
(***************************************************************************)
id == <<"i", "d">>
name == <<"n", "a", "m", "e">>
SQL_KEYS == <<id, name>>
PRIMARY_KEY == id
TABLE_NAME == <<"t", "b", "l">>

Ids == 1..MaxId
NameTexts == {<<"a">>, <<"b">>}
\* what a stored row holds in its name column (None is SQL NULL)
Cells == {PyStr(s) : s \in NameTexts} \cup {None}
Rows == {(id :> PyInt(i)) @@ (name :> c) : i \in Ids, c \in Cells}

getattr(obj, k) == obj[k]
primary_value(obj) == getattr(obj, PRIMARY_KEY)

(***************************************************************************)
(* gets: the normalisation of the keyword arguments.  kwargs is a sequence *)
(* of <<key, value>> pairs, in the dict's insertion order.                 *)
(***************************************************************************)
gets_value(v) ==
    IF v = None THEN <<"I", "S">>
    ELSE IF Prefix2(str(v)) \notin DOMAIN OPERATORS THEN <<"=", "=">> \o str(v)
    ELSE str(v)

gets_kwargs(kwargs) == [i \in 1..Len(kwargs) |-> <<kwargs[i][1], gets_value(kwargs[i][2])>>]

\* _retrieve: one rendered constraint, with its trailing " AND "
where_item(k, v) ==
    LET operator == Prefix2(v)
    IN  IF operator = <<"I", "S">>
        THEN k \o <<" ">> \o OPERATORS[operator] \o AND
        ELSE k \o <<" ">> \o OPERATORS[operator] \o <<" ">> \o repr(Rest2(v)) \o AND

RECURSIVE where_items(_)
where_items(constrictions) ==
    IF Len(constrictions) = 0 THEN <<>>
    ELSE where_item(constrictions[1][1], constrictions[1][2]) \o where_items(Tail(constrictions))

\* _retrieve: the text handed to the adapter
_retrieve_text(tableName, constrictions) ==
    LET where == IF Len(constrictions) > 0
                 THEN strip(WHERE \o where_items(constrictions), Chars(AND))
                 ELSE WHERE
    IN  strip(SELECT \o tableName \o <<" ">> \o where, Chars(WHERE))

(***************************************************************************)
(* The adapter: dbconnect.Adapter.query on the table.  A SELECT returns    *)
(* the rows that satisfy every constraint, in primary-key order; a         *)
(* comparison with SQL NULL is never true.                                 *)
(***************************************************************************)
CharOrder == <<"'", "-", "0", "1", "2", "3", "4", "5", "6", "7", "8", "9",
               "<", "=", ">", "I", "S", "a", "b">>
Ord(c) == CHOOSE i \in 1..Len(CharOrder) : CharOrder[i] = c

RECURSIVE TextLess(_, _)
TextLess(s, t) ==
    IF Len(t) = 0 THEN FALSE
    ELSE IF Len(s) = 0 THEN TRUE
    ELSE IF s[1] = t[1] THEN TextLess(Tail(s), Tail(t))
    ELSE Ord(s[1]) < Ord(t[1])

Compare(cell, op, literal) ==
    CASE op = <<"=">> -> cell = literal
      [] op = <<"<">> -> TextLess(cell, literal)
      [] op = <<">">> -> TextLess(literal, cell)
      [] op = <<"<", "=">> -> cell = literal \/ TextLess(cell, literal)
      [] op = <<">", "=">> -> cell = literal \/ TextLess(literal, cell)

\* one constraint of the WHERE clause, as _retrieve renders it, on one row
Satisfies(row, k, v) ==
    LET operator == Prefix2(v)
    IN  IF operator = <<"I", "S">>
        THEN row[k] = None
        ELSE row[k] # None /\ Compare(str(row[k]), OPERATORS[operator], Rest2(v))

RECURSIVE ByPrimaryKey(_)
ByPrimaryKey(rows) ==
    IF rows = {} THEN <<>>
    ELSE LET first == CHOOSE r \in rows : \A q \in rows : r[PRIMARY_KEY][2] <= q[PRIMARY_KEY][2]
         IN  <<first>> \o ByPrimaryKey(rows \ {first})

query_select(tbl, constrictions) ==
    ByPrimaryKey({r \in tbl : \A i \in 1..Len(constrictions) :
                     Satisfies(r, constrictions[i][1], constrictions[i][2])})

\* _retrieve on the rows: the adapter's answer to the rendered query
_retrieve(tbl, constrictions) == query_select(tbl, constrictions)

(***************************************************************************)
(* The retrieval protocol.  A call's result is [exc, val]: the exception   *)
(* it raised ("none" when it returned) and the value it returned.          *)
(***************************************************************************)
Return(v) == [exc |-> "none", val |-> v]
\* except KeyError: exceptions.ResponseAmbiguousError is not a KeyError
except_KeyError(e) == e = "KeyError"
Raise(e) == [exc |-> e, val |-> None]

\* construct is the entity type's hook: one object per row, attributes as stored
construct(response) == response

gets(tbl, kwargs) ==
    IF Len(kwargs) = 0
    THEN Return(PyList(construct(_retrieve(tbl, <<>>))))
    ELSE Return(PyList(construct(_retrieve(tbl, gets_kwargs(kwargs)))))

get_any(tbl, primary, kwargs) ==
    LET elements == IF primary # None
                    THEN gets(tbl, <<<<PRIMARY_KEY, primary>>>> \o kwargs).val[2]
                    ELSE gets(tbl, kwargs).val[2]
    IN  IF Len(elements) < 1 THEN Raise("KeyError")
        ELSE Return(PyObj(elements[1]))

get(tbl, primary, kwargs) ==
    LET elements == IF primary # None
                    THEN gets(tbl, <<<<PRIMARY_KEY, primary>>>> \o kwargs).val[2]
                    ELSE gets(tbl, kwargs).val[2]
    IN  IF Len(elements) > 1 THEN Raise("ResponseAmbiguousError")
        ELSE IF Len(elements) < 1 THEN Raise("KeyError")
        ELSE Return(PyObj(elements[1]))

exists_falsy(tbl, value_primary) ==
    LET r == get(tbl, None, <<<<PRIMARY_KEY, value_primary>>>>)
    IN  IF r.exc = "none" \/ except_KeyError(r.exc) THEN Return(FALSE) ELSE r

\* exists: TRUE, FALSE, or the exception of get that is not a KeyError
exists(tbl, value_primary) ==
    LET r == get(tbl, None, <<<<PRIMARY_KEY, value_primary>>>>)
    IN  IF r.exc = "none" THEN Return(TRUE)
        ELSE IF except_KeyError(r.exc) THEN Return(FALSE)
        ELSE r

fetchs(tbl, kwargs) ==
    LET r == gets(tbl, kwargs)
    IN  IF except_KeyError(r.exc) THEN Return(PyList(<<>>)) ELSE r

fetch_uncaught(tbl, primary, kwargs) == get(tbl, primary, kwargs)

fetch(tbl, primary, kwargs) ==
    LET r == get(tbl, primary, kwargs)
    IN  IF except_KeyError(r.exc) THEN Return(None) ELSE r

(***************************************************************************)
(* commit.  The INSERT and the UPDATE are parameterized: the adapter gets  *)
(* the column list and the bound arguments.                                *)
(***************************************************************************)
Procs == {1, 2}

\* the objects commit is called on: the primary key is set, name may be unset
Objects == {(id :> PyInt(i)) @@ (name :> c) : i \in Ids, c \in Cells \cup {Ellipsis}}
Unborn == (id :> None) @@ (name :> None)

keys_lst(obj) == SelectSeq(SQL_KEYS, LAMBDA k : getattr(obj, k) # Ellipsis)
args(obj, keys) == [i \in 1..Len(keys) |-> getattr(obj, keys[i])]

commit_swapped(obj, present) ==
    IF present
    THEN [kind |-> "INSERT", keys |-> keys_lst(obj), args |-> args(obj, keys_lst(obj))]
    ELSE [kind |-> "UPDATE", keys |-> keys_lst(obj),
          args |-> args(obj, keys_lst(obj)) \o <<primary_value(obj)>>]

\* the query commit sends, given what exists(primary_value()) returned
commit(obj, present) ==
    IF ~present
    THEN [kind |-> "INSERT", keys |-> keys_lst(obj), args |-> args(obj, keys_lst(obj))]
    ELSE [kind |-> "UPDATE", keys |-> keys_lst(obj),
          args |-> args(obj, keys_lst(obj)) \o <<primary_value(obj)>>]

Assigned(q, k, default) ==
    IF \E i \in 1..Len(q.keys) : q.keys[i] = k
    THEN q.args[CHOOSE i \in 1..Len(q.keys) : q.keys[i] = k]
    ELSE default

\* the adapter on a write query: [tbl, err]
query_write(tbl, q) ==
    IF q.kind = "INSERT"
    THEN LET row == [k \in DOMAIN Unborn |-> Assigned(q, k, None)]
         IN  IF \E r \in tbl : r[PRIMARY_KEY] = row[PRIMARY_KEY]
             THEN [tbl |-> tbl, err |-> "DuplicateKey"]
             ELSE [tbl |-> tbl \cup {row}, err |-> "none"]
    ELSE LET where == q.args[Len(q.args)]
         IN  [tbl |-> {IF r[PRIMARY_KEY] = where
                       THEN [k \in DOMAIN r |-> Assigned(q, k, r[k])]
                       ELSE r : r \in tbl},
              err |-> "none"]

InTable(tbl, value_primary) == \E r \in tbl : r[PRIMARY_KEY] = value_primary

InitDb ==
    /\ table = {}
    /\ pc = [p \in Procs |-> "idle"]
    /\ self = [p \in Procs |-> Unborn]
    /\ found = [p \in Procs |-> FALSE]
    /\ issued = [p \in Procs |-> <<>>]
    /\ pre = [p \in Procs |-> FALSE]
    /\ raised = [p \in Procs |-> "none"]
    /\ inserts = [i \in Ids |-> 0]
    /\ updates = [i \in Ids |-> 0]
    /\ raced = {}
    /\ ncalls = 0

\* no other client is between its existence check and its write
Serial(p) == \A q \in Procs \ {p} : pc[q] # "checked"

\* commit, line 235: the existence check
CommitCheck(p, obj) ==
    /\ pc[p] \in {"idle", "done"}
    /\ ncalls < MaxCalls
    /\ LET r == exists(table, primary_value(obj))
       IN  /\ pc' = [pc EXCEPT ![p] = IF r.exc = "none" THEN "checked" ELSE "done"]
           /\ found' = [found EXCEPT ![p] = r.exc = "none" /\ r.val]
           /\ raised' = [raised EXCEPT ![p] = r.exc]
    /\ self' = [self EXCEPT ![p] = obj]
    /\ issued' = [issued EXCEPT ![p] = <<>>]
    /\ pre' = [pre EXCEPT ![p] = InTable(table, primary_value(obj))]
    /\ raced' = IF \E q \in Procs \ {p} :
                      pc[q] = "checked" /\ primary_value(self[q]) = primary_value(obj)
                THEN raced \cup {primary_value(obj)[2]}
                ELSE raced
    /\ ncalls' = ncalls + 1
    /\ UNCHANGED <<table, inserts, updates>>

\* commit, lines 236-242: the INSERT or the UPDATE
CommitWrite(p) ==
    /\ pc[p] = "checked"
    /\ LET q == commit(self[p], found[p])
           w == query_write(table, q)
           k == primary_value(self[p])[2]
       IN  /\ table' = w.tbl
           /\ raised' = [raised EXCEPT ![p] = w.err]
           /\ issued' = [issued EXCEPT ![p] = Append(@, q)]
           /\ inserts' = IF q.kind = "INSERT" THEN [inserts EXCEPT ![k] = @ + 1] ELSE inserts
           /\ updates' = IF q.kind = "UPDATE" THEN [updates EXCEPT ![k] = @ + 1] ELSE updates
    /\ pc' = [pc EXCEPT ![p] = "done"]
    /\ UNCHANGED <<self, found, pre, raced, ncalls>>

(***************************************************************************)
(* Retrieval calls on a table.                                             *)
(***************************************************************************)
\* the tables in which no two rows share a primary value
Tables == {t \in SUBSET Rows : \A r, q \in t : r[PRIMARY_KEY] = q[PRIMARY_KEY] => r = q}

PrimaryArgs == {PyInt(i) : i \in Ids}
NameArgs == Cells \cup {PyStr(<<">", "=", "a">>), PyStr(<<"<", "<", "b">>), PyStr(<<"I", "S", "a">>)}
\* keyword arguments: none, one key, or both keys in either order
Kwargs ==
    {<<>>} \cup {<<<<id, v>>>> : v \in PrimaryArgs} \cup {<<<<name, v>>>> : v \in NameArgs}
    \cup {<<<<id, v>>, <<name, w>>>> : v \in PrimaryArgs, w \in NameArgs}
    \cup {<<<<name, w>>, <<id, v>>>> : v \in PrimaryArgs, w \in NameArgs}
HasKey(kwargs, k) == \E i \in 1..Len(kwargs) : kwargs[i][1] = k
\* a positional primary value and a keyword for the primary key cannot both be passed
Callable(primary, kwargs) == primary = None \/ ~HasKey(kwargs, PRIMARY_KEY)

NoCall == [op |-> "none", primary |-> None, kwargs |-> <<>>]

InitQ ==
    /\ call = NoCall
    /\ outcome = Return(None)

Gets(kwargs) ==
    /\ call = NoCall
    /\ call' = [op |-> "gets", primary |-> None, kwargs |-> kwargs]
    /\ outcome' = gets(table, kwargs)
    /\ UNCHANGED <<dbvars, cachevars, purevars>>

Get(primary, kwargs) ==
    /\ call = NoCall
    /\ Callable(primary, kwargs)
    /\ call' = [op |-> "get", primary |-> primary, kwargs |-> kwargs]
    /\ outcome' = get(table, primary, kwargs)
    /\ UNCHANGED <<dbvars, cachevars, purevars>>

Fetchs(kwargs) ==
    /\ call = NoCall
    /\ call' = [op |-> "fetchs", primary |-> None, kwargs |-> kwargs]
    /\ outcome' = fetchs(table, kwargs)
    /\ UNCHANGED <<dbvars, cachevars, purevars>>

Fetch(primary, kwargs) ==
    /\ call = NoCall
    /\ Callable(primary, kwargs)
    /\ call' = [op |-> "fetch", primary |-> primary, kwargs |-> kwargs]
    /\ outcome' = fetch(table, primary, kwargs)
    /\ UNCHANGED <<dbvars, cachevars, purevars>>

(***************************************************************************)
(* DictCache.cache.  The subscript lookup, the call of func, the store and *)
(* the final subscript read are separate steps of the interpreter.         *)
(***************************************************************************)
Callers == {1, 2}
Keys == {"k1", "k2"}
\* the producers passed as func; one of them returns None
Producers == {"f", "g", "n"}
Invoke(func) == IF func = "n" THEN None ELSE PyStr(<<func>>)

subscript_or_none(cache, key) ==
    IF key \in DOMAIN cache /\ cache[key] # None THEN Return(cache[key]) ELSE Raise("KeyError")

\* self._cache[key]
subscript(cache, key) ==
    IF key \in DOMAIN cache THEN Return(cache[key]) ELSE Raise("KeyError")

InitCache ==
    /\ _cache = <<>>
    /\ cpc = [t \in Callers |-> "idle"]
    /\ ckey = [t \in Callers |-> "k1"]
    /\ cfunc = [t \in Callers |-> "f"]
    /\ cval = [t \in Callers |-> None]
    /\ cret = [t \in Callers |-> None]
    /\ invoked = [k \in Keys |-> <<>>]
    /\ stores = [k \in Keys |-> 0]
    /\ ccalls = 0

\* no other caller is inside cache()
CacheSerial(t) == \A u \in Callers \ {t} : cpc[u] \in {"idle", "done"}

\* line 356: try: return self._cache[key]
CacheLookup(t, key, func) ==
    /\ cpc[t] \in {"idle", "done"}
    /\ ccalls < MaxCacheCalls
    /\ ccalls' = ccalls + 1
    /\ ckey' = [ckey EXCEPT ![t] = key]
    /\ cfunc' = [cfunc EXCEPT ![t] = func]
    /\ LET r == subscript(_cache, key)
       IN  IF r.exc = "none"
           THEN /\ cret' = [cret EXCEPT ![t] = r.val]
                /\ cpc' = [cpc EXCEPT ![t] = "done"]
           ELSE /\ cret' = cret
                /\ cpc' = [cpc EXCEPT ![t] = "miss"]
    /\ UNCHANGED <<_cache, cval, invoked, stores>>

\* line 358, right-hand side: func()
CacheInvoke(t) ==
    /\ cpc[t] = "miss"
    /\ cval' = [cval EXCEPT ![t] = Invoke(cfunc[t])]
    /\ invoked' = [invoked EXCEPT ![ckey[t]] = Append(@, cfunc[t])]
    /\ cpc' = [cpc EXCEPT ![t] = "produced"]
    /\ UNCHANGED <<_cache, ckey, cfunc, cret, stores, ccalls>>

\* line 358, the assignment: self._cache[key] = ...
CacheStore(t) ==
    /\ cpc[t] = "produced"
    /\ _cache' = (ckey[t] :> cval[t]) @@ _cache
    /\ stores' = [stores EXCEPT ![ckey[t]] = @ + 1]
    /\ cpc' = [cpc EXCEPT ![t] = "stored"]
    /\ UNCHANGED <<ckey, cfunc, cval, cret, invoked, ccalls>>

\* line 359: return self._cache[key]
CacheReturn(t) ==
    /\ cpc[t] = "stored"
    /\ cret' = [cret EXCEPT ![t] = subscript(_cache, ckey[t]).val]
    /\ cpc' = [cpc EXCEPT ![t] = "done"]
    /\ UNCHANGED <<_cache, ckey, cfunc, cval, invoked, stores, ccalls>>

(***************************************************************************)
(* intersect.  The lists are modelled by the sets of their elements: every *)
(* step of the code goes through set().                                    *)
(***************************************************************************)
RECURSIVE intersect_while(_, _)
\* lines 40-44: the loop, returning the list named result
intersect_while(_list, result) ==
    IF Len(_list) > 1
    THEN LET conjunction == _list[1] \cap _list[2]
         IN  intersect_while(<<conjunction>> \o SubSeq(_list, 3, Len(_list)),
                             Append(result, conjunction))
    ELSE result

intersect(arguments) ==
    LET length == Len(arguments)
    IN  IF length = 1 THEN Return(arguments[1])
        ELSE IF length = 0 THEN Raise("IndexError")
        ELSE LET conjunction == arguments[1] \cap arguments[2]
                 _list == <<conjunction>> \o SubSeq(arguments, 3, length)
                 result == IF length > 2
                           THEN intersect_while(_list, <<conjunction>>)
                           ELSE <<conjunction>>
             IN  Return(result[1])

(***************************************************************************)
(* ResponseObjectList.selectwhere, on a collection of objects with three   *)
(* attributes and pairwise different primary values (so that set(), which  *)
(* goes by __eq__ and __hash__, keeps every object).                       *)
(***************************************************************************)
city == <<"c", "i", "t", "y">>
active == <<"a", "c", "t", "i", "v", "e">>
PyBool(b) == <<"bool", b>>

searches(data, attr, value) == {data[i] : i \in {j \in 1..Len(data) : getattr(data[j], attr) = value}}

selectwhere(data, kwargs) ==
    IF Len(data) = 0 THEN Raise("IndexError")
    ELSE intersect([i \in 1..Len(kwargs) |-> searches(data, kwargs[i][1], kwargs[i][2])])

(***************************************************************************)
(* get_increment, on the objects gets() delivers.                          *)
(***************************************************************************)
\* bool(x) of None or of an SQLObject, which defines neither __bool__ nor __len__
Truthy(x) == x[1] # "NoneType"

RECURSIVE get_increment_for(_, _, _, _)
\* lines 265-278: the loop from the n-th object on, then the fall-through
get_increment_for(objs, n, i, previous) ==
    IF n > Len(objs)
    THEN IF i = None THEN Raise("TypeError") ELSE Return(i[2] + 1)
    ELSE LET obj == objs[n]
             prev == IF ~Truthy(previous) THEN PyObj(obj) ELSE previous
             expected == primary_value(prev[2])[2] + 1
         IN  IF ~Truthy(prev) THEN get_increment_for(objs, n + 1, PyInt(expected), prev)
             ELSE IF ~(expected = primary_value(obj)[2]) THEN Return(expected)
             ELSE get_increment_for(objs, n + 1, PyInt(expected), PyObj(obj))

get_increment(objs) == get_increment_for(objs, 1, None, None)

(***************************************************************************)
(* gets as far as the query text: lines 205-212 and _retrieve.             *)
(***************************************************************************)
gets_text(tableName, kwargs) ==
    IF Len(kwargs) = 0
    THEN _retrieve_text(tableName, <<>>)
    ELSE _retrieve_text(tableName, gets_kwargs(kwargs))

(***************************************************************************)
(* The inputs of the pure functions.                                       *)
(***************************************************************************)
RECURSIVE SeqsUpTo(_, _)
\* the sequences over S of length at most n
SeqsUpTo(S, n) ==
    IF n = 0 THEN {<<>>}
    ELSE LET shorter == SeqsUpTo(S, n - 1)
         IN  shorter \cup {Append(q, x) : q \in {r \in shorter : Len(r) = n - 1}, x \in S}

RECURSIVE Ascending(_)
\* a set of integers as the ascending sequence of its elements
Ascending(S) ==
    IF S = {} THEN <<>>
    ELSE LET least == CHOOSE x \in S : \A y \in S : x <= y
         IN  <<least>> \o Ascending(S \ {least})

ExampleSets == {{1, 2, 3}, {2, 3, 4}, {3, 4, 5}}
IntersectInputs == SeqsUpTo((SUBSET (1..MaxElem)) \cup ExampleSets, MaxArgs)

Cities == {PyStr(<<"A">>), PyStr(<<"B">>)}
Elements(i) == {(id :> PyInt(i)) @@ (city :> c) @@ (active :> PyBool(b)) : c \in Cities, b \in BOOLEAN}
\* the collections: at most one object per primary value
WellKeyed(data) == \A n \in 1..Len(data) : \A m \in 1..Len(data) :
    (data[n][id] = data[m][id]) => n = m
Collections == {d \in SeqsUpTo(UNION {Elements(i) : i \in Ids}, MaxId) : WellKeyed(d)}
Pairs == {<<id, PyInt(i)>> : i \in Ids} \cup {<<city, c>> : c \in Cities}
             \cup {<<active, PyBool(b)>> : b \in BOOLEAN}
\* keyword arguments: every key at most once
SelectKwargs == {k \in SeqsUpTo(Pairs, 3) :
                    \A n \in 1..Len(k) : \A m \in 1..Len(k) : (k[n][1] = k[m][1]) => n = m}

KeyObject(k) == (id :> PyInt(k)) @@ (name :> None)
IncrementInputs == {[n \in 1..Len(Ascending(S)) |-> KeyObject(Ascending(S)[n])] : S \in SUBSET (1..MaxKey)}

NameChars == {"t", "U", "S", "E", "R"}
TableNames == SeqsUpTo(NameChars, MaxNameLen) \ {<<>>}
TextKwargs ==
    {<<>>, <<<<id, PyInt(1)>>>>, <<<<name, None>>>>, <<<<name, PyStr(<<"D">>)>>>>,
     <<<<name, PyStr(<<"I", "S", "a">>)>>>>,
     <<<<id, PyInt(1)>>, <<name, PyStr(<<">", "=", "A">>)>>>>,
     <<<<name, PyStr(<<"a", "'">>)>>, <<id, PyInt(2)>>>>}

NotCalled == [exc |-> "not called", val |-> None]
Called(r) == r.exc # "not called"

InitPure ==
    /\ input = [fn |-> "none"]
    /\ output = NotCalled

Intersect ==
    /\ input.fn = "intersect" /\ ~Called(output)
    /\ output' = intersect(input.args)
    /\ UNCHANGED <<input, dbvars, qvars, cachevars>>

SelectWhere ==
    /\ input.fn = "selectwhere" /\ ~Called(output)
    /\ output' = selectwhere(input.data, input.kwargs)
    /\ UNCHANGED <<input, dbvars, qvars, cachevars>>

GetIncrement ==
    /\ input.fn = "get_increment" /\ ~Called(output)
    /\ output' = get_increment(input.objs)
    /\ UNCHANGED <<input, dbvars, qvars, cachevars>>

GetsText ==
    /\ input.fn = "gets" /\ ~Called(output)
    /\ output' = Return(gets_text(input.table, input.kwargs))
    /\ UNCHANGED <<input, dbvars, qvars, cachevars>>

(***************************************************************************)
(* The specifications.                                                     *)
(***************************************************************************)
Init == InitDb /\ InitQ /\ InitCache /\ InitPure

\* commit calls one after the other, as the synchronous core runs them
Next ==
    \/ \E p \in Procs, obj \in Objects :
          Serial(p) /\ CommitCheck(p, obj) /\ UNCHANGED <<qvars, cachevars, purevars>>
    \/ \E p \in Procs : CommitWrite(p) /\ UNCHANGED <<qvars, cachevars, purevars>>

Spec == Init /\ [][Next]_vars

\* commit calls of two clients interleaved
NextConcurrent ==
    \/ \E p \in Procs, obj \in Objects :
          CommitCheck(p, obj) /\ UNCHANGED <<qvars, cachevars, purevars>>
    \/ \E p \in Procs : CommitWrite(p) /\ UNCHANGED <<qvars, cachevars, purevars>>

SpecConcurrent == Init /\ [][NextConcurrent]_vars

\* retrieval calls on any table
InitRetrieve ==
    /\ table \in Tables
    /\ pc = [p \in Procs |-> "idle"]
    /\ self = [p \in Procs |-> Unborn]
    /\ found = [p \in Procs |-> FALSE]
    /\ issued = [p \in Procs |-> <<>>]
    /\ pre = [p \in Procs |-> FALSE]
    /\ raised = [p \in Procs |-> "none"]
    /\ inserts = [i \in Ids |-> 0]
    /\ updates = [i \in Ids |-> 0]
    /\ raced = {}
    /\ ncalls = 0
    /\ InitQ /\ InitCache /\ InitPure

NextRetrieve ==
    \/ \E kwargs \in Kwargs : Gets(kwargs)
    \/ \E primary \in PrimaryArgs \cup {None}, kwargs \in Kwargs : Get(primary, kwargs)
    \/ \E kwargs \in Kwargs : Fetchs(kwargs)
    \/ \E primary \in PrimaryArgs \cup {None}, kwargs \in Kwargs : Fetch(primary, kwargs)

SpecRetrieve == InitRetrieve /\ [][NextRetrieve]_vars

\* cache calls one after the other
NextCache ==
    \/ \E t \in Callers, key \in Keys, func \in Producers :
          CacheSerial(t) /\ CacheLookup(t, key, func) /\ UNCHANGED <<dbvars, qvars, purevars>>
    \/ \E t \in Callers : CacheInvoke(t) /\ UNCHANGED <<dbvars, qvars, purevars>>
    \/ \E t \in Callers : CacheStore(t) /\ UNCHANGED <<dbvars, qvars, purevars>>
    \/ \E t \in Callers : CacheReturn(t) /\ UNCHANGED <<dbvars, qvars, purevars>>

SpecCache == Init /\ [][NextCache]_vars

\* cache calls of two callers interleaved
NextCacheConcurrent ==
    \/ \E t \in Callers, key \in Keys, func \in Producers :
          CacheLookup(t, key, func) /\ UNCHANGED <<dbvars, qvars, purevars>>
    \/ \E t \in Callers : CacheInvoke(t) /\ UNCHANGED <<dbvars, qvars, purevars>>
    \/ \E t \in Callers : CacheStore(t) /\ UNCHANGED <<dbvars, qvars, purevars>>
    \/ \E t \in Callers : CacheReturn(t) /\ UNCHANGED <<dbvars, qvars, purevars>>

SpecCacheConcurrent == Init /\ [][NextCacheConcurrent]_vars

\* the pure functions, each applied once to an input drawn from its bounded set
InitInputs ==
    /\ InitDb /\ InitQ /\ InitCache
    /\ output = NotCalled
    /\ \/ \E a \in IntersectInputs : input = [fn |-> "intersect", args |-> a]
       \/ \E d \in Collections, k \in SelectKwargs :
             input = [fn |-> "selectwhere", data |-> d, kwargs |-> k]
       \/ \E o \in IncrementInputs : input = [fn |-> "get_increment", objs |-> o]
       \/ \E t \in TableNames, k \in TextKwargs : input = [fn |-> "gets", table |-> t, kwargs |-> k]

NextPure == Intersect \/ SelectWhere \/ GetIncrement \/ GetsText

SpecPure == InitInputs /\ [][NextPure]_vars

(***************************************************************************)
(* The properties.                                                         *)
(***************************************************************************)
\* what a call came to
Returned(r, v) == r.exc = "none" /\ r.val = v
Raised(r, e) == r.exc = e

\* the constraints a get or fetch call puts on the rows
ConstraintsOf(c) ==
    IF c.primary # None THEN <<<<PRIMARY_KEY, c.primary>>>> \o c.kwargs ELSE c.kwargs

\* the rows of the table that match the call's constraints
MatchingRows(c) ==
    {r \in table : \A i \in 1..Len(ConstraintsOf(c)) :
        Satisfies(r, ConstraintsOf(c)[i][1], gets_value(ConstraintsOf(c)[i][2]))}

\* C1: get raises KeyError when no row matches, returns the row when exactly
\* one matches, and raises ResponseAmbiguousError when two or more match.
GetOneOfThree ==
    call.op = "get" =>
        LET n == Cardinality(MatchingRows(call))
        IN  /\ n = 0 => Raised(outcome, "KeyError")
            /\ n = 1 => outcome.exc = "none" /\ outcome.val[2] \in MatchingRows(call)
            /\ n >= 2 => Raised(outcome, "ResponseAmbiguousError")

GetAmbiguousReached ==
    /\ call.op = "get"
    /\ Cardinality(MatchingRows(call)) >= 2
    /\ outcome.exc = "ResponseAmbiguousError"

FetchSwallowsNotFound ==
    LET n == Cardinality(MatchingRows(call))
    IN  /\ call.op = "fetch" =>
              /\ outcome.exc # "KeyError"
              /\ n = 0 => Returned(outcome, None)
              /\ n = 1 => outcome.exc = "none" /\ outcome.val[1] = "SQLObject"
                          /\ outcome.val[2] \in MatchingRows(call)
              /\ n >= 2 => Raised(outcome, "ResponseAmbiguousError")
        /\ call.op = "fetchs" /\ n = 0 => Returned(outcome, PyList(<<>>))

FetchNoneReached ==
    /\ call.op = "fetch"
    /\ Cardinality(MatchingRows(call)) = 0
    /\ Returned(outcome, None)

\* C4: in a sequential run the producer is invoked once per key, on the first
\* call for it; later calls invoke nothing and return the value stored by the
\* first call, which is never overwritten or removed.
CacheOncePerKey ==
    /\ \A k \in Keys :
          /\ Len(invoked[k]) <= 1
          /\ stores[k] <= 1
          /\ k \in DOMAIN _cache =>
                /\ Len(invoked[k]) = 1
                /\ _cache[k] = Invoke(invoked[k][1])
    /\ \A t \in Callers :
          cpc[t] = "done" =>
              /\ ckey[t] \in DOMAIN _cache
              /\ Len(invoked[ckey[t]]) = 1
              /\ cret[t] = Invoke(invoked[ckey[t]][1])

CacheSecondCallReached ==
    \E t, u \in Callers :
        /\ cpc[t] = "done" /\ cpc[u] = "done"
        /\ ckey[t] = ckey[u] /\ cfunc[t] # cfunc[u]
        /\ cret[t] = cret[u]
        /\ invoked[ckey[t]] = <<cfunc[t]>>

\* the elements that are members of every input
MembersOfAll(arguments) ==
    {x \in UNION {arguments[i] : i \in 1..Len(arguments)} :
        \A i \in 1..Len(arguments) : x \in arguments[i]}

\* C5: intersect of k >= 1 inputs returns exactly the elements that are members
\* of all k inputs.
IntersectAllInputs ==
    (input.fn = "intersect" /\ Called(output) /\ Len(input.args) >= 1) =>
        Returned(output, MembersOfAll(input.args))

RECURSIVE FirstMissing(_, _)
\* the first integer from i on that is no primary value of objs
FirstMissing(objs, i) ==
    IF \E n \in 1..Len(objs) : primary_value(objs[n])[2] = i
    THEN FirstMissing(objs, i + 1)
    ELSE i

\* C6: on a non-empty table delivered in ascending primary-key order,
\* get_increment returns the first integer, counting up from the first row's
\* primary value, that no row has as its primary value.
IncrementFirstGap ==
    (input.fn = "get_increment" /\ Called(output) /\ Len(input.objs) >= 1) =>
        Returned(output, FirstMissing(input.objs, primary_value(input.objs[1])[2]))

\* C7: selectwhere with n >= 1 constraints on a non-empty collection returns
\* exactly the elements that satisfy all n equalities; on an empty collection
\* it raises IndexError.
SelectWhereAllConstraints ==
    (input.fn = "selectwhere" /\ Called(output) /\ Len(input.kwargs) >= 1) =>
        IF Len(input.data) = 0
        THEN Raised(output, "IndexError")
        ELSE Returned(output, {input.data[n] : n \in {m \in 1..Len(input.data) :
                 \A i \in 1..Len(input.kwargs) :
                     getattr(input.data[m], input.kwargs[i][1]) = input.kwargs[i][2]}})

\* one constraint as the WHERE clause is to show it: the null check has no
\* operand, a value that starts with an operator token is that comparison
Rendered(k, v) ==
    IF v = None \/ Prefix2(str(v)) = <<"I", "S">>
    THEN k \o <<" ", "I", "S", " ", "N", "U", "L", "L">>
    ELSE IF Prefix2(str(v)) \in DOMAIN OPERATORS
    THEN k \o <<" ">> \o OPERATORS[Prefix2(str(v))] \o <<" ">> \o repr(Rest2(str(v)))
    ELSE k \o <<" ", "=", " ">> \o repr(str(v))

RECURSIVE JoinAnd(_)
JoinAnd(kwargs) ==
    IF Len(kwargs) = 1 THEN Rendered(kwargs[1][1], kwargs[1][2])
    ELSE Rendered(kwargs[1][1], kwargs[1][2]) \o AND \o JoinAnd(Tail(kwargs))

\* C8: without constraints gets sends 'SELECT * FROM <table name>', the table
\* name intact and no WHERE; with constraints the WHERE clause has no trailing
\* ' AND ' and shows every column, operator and value intact.
QueryTextIntact ==
    (input.fn = "gets" /\ Called(output)) =>
        IF Len(input.kwargs) = 0
        THEN output.val = SELECT \o input.table
        ELSE output.val = SELECT \o input.table \o <<" ">> \o WHERE \o JoinAnd(input.kwargs)

\* C9: under any interleaving of callers of cache, the producer runs at most
\* once per key and the callers of one key return the same value.
CacheOnceUnderConcurrency ==
    /\ \A k \in Keys : Len(invoked[k]) <= 1
    /\ \A t, u \in Callers :
          (cpc[t] = "done" /\ cpc[u] = "done" /\ ckey[t] = ckey[u]) => cret[t] = cret[u]

====
